---------------------------- MODULE Spec2Model ----------------------------
(***************************************************************************)
(* The image editor of client/src/pages/MediaUpload.tsx (component         *)
(* ImageEditor): the crop session (rectangle, handles, drag), the          *)
(* brightness / contrast / filter pipeline and the canvas that holds the   *)
(* displayed ("working") image, with originalImageData as the "original"   *)
(* buffer.                                                                 *)
(*                                                                         *)
(* Numbers.  JavaScript numbers are modelled as exact rationals <<n, d>>   *)
(* in lowest terms with d > 0 (floating-point rounding is not modelled).   *)
(* Canvas sizes, pixel coordinates and channel values are integers, as in  *)
(* the browser.                                                            *)
(*                                                                         *)
(* Bitmaps.  The content of a canvas or of an ImageData is kept as the     *)
(* sequence of drawing operations that produced it; PixelAt evaluates one  *)
(* pixel of it.  Two bitmaps are the same image when they have the same    *)
(* size and the same pixel everywhere (SameBitmap).                        *)
(*                                                                         *)
(* React.  A handler, the re-render it causes and the effects of that      *)
(* render run before the next event is handled, so each is one action.     *)
(* The onload callbacks of `new Image()` run later, as tasks of their own: *)
(* they wait in `pending` and each is an action.                           *)
(***************************************************************************)
EXTENDS Integers, Sequences, FiniteSets, TLC

-----------------------------------------------------------------------------
(* Bounds of the model *)

\* image uploads in one behaviour
MaxUploads == 1
\* other user events (clicks, slider changes, pointer events) in one behaviour
MaxEvents == 4
\* pointer-move events among them
MaxMoves == 2

-----------------------------------------------------------------------------
(* Rationals *)

Abs(n) == IF n < 0 THEN -n ELSE n

RECURSIVE GCD(_, _)
GCD(a, b) == IF b = 0 THEN a ELSE GCD(b, a % b)

Norm(n, d) ==
    LET s == IF d < 0 THEN -1 ELSE 1
        g == GCD(Abs(n), Abs(d))
    IN  <<(s * n) \div g, (s * d) \div g>>

R(n) == <<n, 1>>
RAdd(p, q) == Norm(p[1] * q[2] + q[1] * p[2], p[2] * q[2])
RSub(p, q) == Norm(p[1] * q[2] - q[1] * p[2], p[2] * q[2])
RMul(p, q) == Norm(p[1] * q[1], p[2] * q[2])
RDiv(p, q) == Norm(p[1] * q[2], p[2] * q[1])
RLe(p, q) == p[1] * q[2] <= q[1] * p[2]
RLt(p, q) == p[1] * q[2] < q[1] * p[2]
RGe(p, q) == RLe(q, p)
RGt(p, q) == RLt(q, p)
RMax(p, q) == IF RLe(p, q) THEN q ELSE p
RMin(p, q) == IF RLe(p, q) THEN p ELSE q
RHalf(p) == Norm(p[1], 2 * p[2])
RFloor(p) == p[1] \div p[2]
\* conversion of a number to a WebIDL long / unsigned long: truncation
RTrunc(p) == IF p[1] >= 0 THEN p[1] \div p[2] ELSE -((-p[1]) \div p[2])
RCeil(p) == -((-p[1]) \div p[2])


-----------------------------------------------------------------------------
(* Crop geometry: hit-testing and the drag transforms of handleMouseMove *)

\* const handleSize = 15 in getDragType
handleSize == 15
\* the literal 20 of the resize guards and of Math.max(20, ...)
MinSize == 20

Rect(x, y, w, h) == [x |-> x, y |-> y, width |-> w, height |-> h]

\* an optional value (T | null) is the empty sequence or a one-element one
Null == <<>>
Some(v) == <<v>>
IsNull(o) == o = <<>>

InBox(mx, my, x0, x1, y0, y1) ==
    RGe(mx, x0) /\ RLe(mx, x1) /\ RGe(my, y0) /\ RLe(my, y1)

\* hitRect with the edge handles tried before the corner handles
hitRectEdgesFirst(r, mx, my) ==
    LET hs == R(handleSize)
        x == r.x
        y == r.y
        xw == RAdd(r.x, r.width)
        yh == RAdd(r.y, r.height)
        xm == RAdd(r.x, RHalf(r.width))
        ym == RAdd(r.y, RHalf(r.height))
        Near(cx, cy) == InBox(mx, my, RSub(cx, hs), RAdd(cx, hs), RSub(cy, hs), RAdd(cy, hs))
    IN  IF Near(xm, y) THEN "resize-n"
        ELSE IF Near(xm, yh) THEN "resize-s"
        ELSE IF Near(x, ym) THEN "resize-w"
        ELSE IF Near(xw, ym) THEN "resize-e"
        ELSE IF Near(x, y) THEN "resize-nw"
        ELSE IF Near(xw, y) THEN "resize-ne"
        ELSE IF Near(x, yh) THEN "resize-sw"
        ELSE IF Near(xw, yh) THEN "resize-se"
        ELSE IF InBox(mx, my, RAdd(x, hs), RSub(xw, hs), RAdd(y, hs), RSub(yh, hs)) THEN "move"
        ELSE "none"

\* getDragType, for a non-null cropRect r; "none" is its null
hitRect(r, mx, my) ==
    LET hs == R(handleSize)
        x == r.x
        y == r.y
        xw == RAdd(r.x, r.width)
        yh == RAdd(r.y, r.height)
        xm == RAdd(r.x, RHalf(r.width))
        ym == RAdd(r.y, RHalf(r.height))
        Near(cx, cy) == InBox(mx, my, RSub(cx, hs), RAdd(cx, hs), RSub(cy, hs), RAdd(cy, hs))
    IN  IF Near(x, y) THEN "resize-nw"
        ELSE IF Near(xw, y) THEN "resize-ne"
        ELSE IF Near(x, yh) THEN "resize-sw"
        ELSE IF Near(xw, yh) THEN "resize-se"
        ELSE IF Near(xm, y) THEN "resize-n"
        ELSE IF Near(xm, yh) THEN "resize-s"
        ELSE IF Near(x, ym) THEN "resize-w"
        ELSE IF Near(xw, ym) THEN "resize-e"
        ELSE IF InBox(mx, my, RAdd(x, hs), RSub(xw, hs), RAdd(y, hs), RSub(yh, hs))
             THEN "move"
        ELSE "none"

getDragType(cropRect, mouseX, mouseY) ==
    IF IsNull(cropRect) THEN "none" ELSE hitRect(cropRect[1], mouseX, mouseY)

\* Math.max(0, Math.min(hi, v))
Clamp0(v, hi) == RMax(R(0), RMin(hi, v))

\* case 'move'
caseMove(r, dx, dy, cw, ch) ==
    [r EXCEPT !.x = Clamp0(RAdd(r.x, dx), RSub(R(cw), r.width)),
              !.y = Clamp0(RAdd(r.y, dy), RSub(R(ch), r.height))]

Max20(v) == RMax(R(MinSize), v)

\* case 'resize-nw'
caseResizeNW(r, dx, dy, ar, cw, ch) ==
    LET newWidth == RSub(r.width, dx)
        newHeight == RSub(r.height, dy)
        avgDelta == RHalf(RAdd(dx, dy))
    IN  IF RGt(newWidth, R(MinSize)) /\ RGt(newHeight, R(MinSize))
           /\ RGe(RAdd(r.x, dx), R(0)) /\ RGe(RAdd(r.y, dy), R(0))
        THEN IF ~IsNull(ar)
             THEN Rect(RAdd(r.x, avgDelta), RAdd(r.y, avgDelta),
                       Max20(RSub(r.width, avgDelta)), Max20(RSub(r.height, avgDelta)))
             ELSE Rect(RAdd(r.x, dx), RAdd(r.y, dy), newWidth, newHeight)
        ELSE r

\* case 'resize-ne'
caseResizeNE(r, dx, dy, ar, cw, ch) ==
    LET neWidth == RAdd(r.width, dx)
        neHeight == RSub(r.height, dy)
        avgDelta == RHalf(RSub(dx, dy))
    IN  IF RGt(neWidth, R(MinSize)) /\ RGt(neHeight, R(MinSize))
           /\ RLe(RAdd(r.x, neWidth), R(cw)) /\ RGe(RAdd(r.y, dy), R(0))
        THEN IF ~IsNull(ar)
             THEN Rect(r.x, RSub(r.y, avgDelta),
                       Max20(RAdd(r.width, avgDelta)), Max20(RAdd(r.height, avgDelta)))
             ELSE Rect(r.x, RAdd(r.y, dy), neWidth, neHeight)
        ELSE r

\* case 'resize-sw'
caseResizeSW(r, dx, dy, ar, cw, ch) ==
    LET swWidth == RSub(r.width, dx)
        swHeight == RAdd(r.height, dy)
        avgDelta == RHalf(RSub(dy, dx))
    IN  IF RGt(swWidth, R(MinSize)) /\ RGt(swHeight, R(MinSize))
           /\ RGe(RAdd(r.x, dx), R(0)) /\ RLe(RAdd(r.y, swHeight), R(ch))
        THEN IF ~IsNull(ar)
             THEN Rect(RSub(r.x, avgDelta), r.y,
                       Max20(RAdd(r.width, avgDelta)), Max20(RAdd(r.height, avgDelta)))
             ELSE Rect(RAdd(r.x, dx), r.y, swWidth, swHeight)
        ELSE r

\* resize-se that accepts a proposed width or height of exactly 20
caseResizeSEFrom20(r, dx, dy, ar, cw, ch) ==
    LET seWidth == RAdd(r.width, dx)
        seHeight == RAdd(r.height, dy)
        avgDelta == RHalf(RAdd(dx, dy))
    IN  IF RGe(seWidth, R(MinSize)) /\ RGe(seHeight, R(MinSize))
           /\ RLe(RAdd(r.x, seWidth), R(cw)) /\ RLe(RAdd(r.y, seHeight), R(ch))
        THEN IF ~IsNull(ar)
             THEN Rect(r.x, r.y,
                       Max20(RAdd(r.width, avgDelta)), Max20(RAdd(r.height, avgDelta)))
             ELSE Rect(r.x, r.y, seWidth, seHeight)
        ELSE r

\* case 'resize-se'
caseResizeSE(r, dx, dy, ar, cw, ch) ==
    LET seWidth == RAdd(r.width, dx)
        seHeight == RAdd(r.height, dy)
        avgDelta == RHalf(RAdd(dx, dy))
    IN  IF RGt(seWidth, R(MinSize)) /\ RGt(seHeight, R(MinSize))
           /\ RLe(RAdd(r.x, seWidth), R(cw)) /\ RLe(RAdd(r.y, seHeight), R(ch))
        THEN IF ~IsNull(ar)
             THEN Rect(r.x, r.y,
                       Max20(RAdd(r.width, avgDelta)), Max20(RAdd(r.height, avgDelta)))
             ELSE Rect(r.x, r.y, seWidth, seHeight)
        ELSE r

\* newRect.width = h * aspectRatio; newRect.x = cropRect.x + (cropRect.width - newRect.width) / 2
WidthFromHeight(r, y, h, ar) ==
    IF ~IsNull(ar)
    THEN LET w == RMul(h, ar[1])
         IN  Rect(RAdd(r.x, RHalf(RSub(r.width, w))), y, w, h)
    ELSE Rect(r.x, y, r.width, h)

\* newRect.height = w / aspectRatio; newRect.y = cropRect.y + (cropRect.height - newRect.height) / 2
HeightFromWidth(r, x, w, ar) ==
    IF ~IsNull(ar)
    THEN LET h == RDiv(w, ar[1])
         IN  Rect(x, RAdd(r.y, RHalf(RSub(r.height, h))), w, h)
    ELSE Rect(x, r.y, w, r.height)

\* case 'resize-n'
caseResizeN(r, dx, dy, ar, cw, ch) ==
    LET nHeight == RSub(r.height, dy)
    IN  IF RGt(nHeight, R(MinSize)) /\ RGe(RAdd(r.y, dy), R(0))
        THEN WidthFromHeight(r, RAdd(r.y, dy), nHeight, ar)
        ELSE r

\* case 'resize-s'
caseResizeS(r, dx, dy, ar, cw, ch) ==
    LET sHeight == RAdd(r.height, dy)
    IN  IF RGt(sHeight, R(MinSize)) /\ RLe(RAdd(r.y, sHeight), R(ch))
        THEN WidthFromHeight(r, r.y, sHeight, ar)
        ELSE r

\* case 'resize-w'
caseResizeW(r, dx, dy, ar, cw, ch) ==
    LET wWidth == RSub(r.width, dx)
    IN  IF RGt(wWidth, R(MinSize)) /\ RGe(RAdd(r.x, dx), R(0))
        THEN HeightFromWidth(r, RAdd(r.x, dx), wWidth, ar)
        ELSE r

\* resize-e that holds the width at the minimum instead of refusing the step
caseResizeEClamped(r, dx, dy, ar, cw, ch) ==
    LET eWidth == Max20(RAdd(r.width, dx))
    IN  IF RLe(RAdd(r.x, eWidth), R(cw))
        THEN HeightFromWidth(r, r.x, eWidth, ar)
        ELSE r

\* case 'resize-e'
caseResizeE(r, dx, dy, ar, cw, ch) ==
    LET eWidth == RAdd(r.width, dx)
    IN  IF RGt(eWidth, R(MinSize)) /\ RLe(RAdd(r.x, eWidth), R(cw))
        THEN HeightFromWidth(r, r.x, eWidth, ar)
        ELSE r

\* switch (dragType)
switchDragType(dragType, r, dx, dy, ar, cw, ch) ==
    CASE dragType = "move" -> caseMove(r, dx, dy, cw, ch)
      [] dragType = "resize-nw" -> caseResizeNW(r, dx, dy, ar, cw, ch)
      [] dragType = "resize-ne" -> caseResizeNE(r, dx, dy, ar, cw, ch)
      [] dragType = "resize-sw" -> caseResizeSW(r, dx, dy, ar, cw, ch)
      [] dragType = "resize-se" -> caseResizeSE(r, dx, dy, ar, cw, ch)
      [] dragType = "resize-n" -> caseResizeN(r, dx, dy, ar, cw, ch)
      [] dragType = "resize-s" -> caseResizeS(r, dx, dy, ar, cw, ch)
      [] dragType = "resize-w" -> caseResizeW(r, dx, dy, ar, cw, ch)
      [] dragType = "resize-e" -> caseResizeE(r, dx, dy, ar, cw, ch)
      [] OTHER -> r

\* the drag step without its final clamp
ensureWithinCanvasOmitted(n, cw, ch) == n

\* "Ensure the crop rect stays within canvas bounds": the four assignments in order
ensureWithinCanvas(n, cw, ch) ==
    LET x1 == Clamp0(n.x, RSub(R(cw), n.width))
        y1 == Clamp0(n.y, RSub(R(ch), n.height))
    IN  Rect(x1, y1, RMin(RSub(R(cw), x1), n.width), RMin(RSub(R(ch), y1), n.height))

\* the rectangle handleMouseMove stores for one drag step
dragStep(dragType, r, dx, dy, ar, cw, ch) ==
    ensureWithinCanvas(switchDragType(dragType, r, dx, dy, ar, cw, ch), cw, ch)


-----------------------------------------------------------------------------
(* Pixels and the adjustment pipeline *)

\* a pixel is <<r, g, b, a>>, each 0..255
Transparent == <<0, 0, 0, 0>>
White == <<255, 255, 255, 255>>

\* storing a number into a Uint8ClampedArray: clamp to [0, 255], round to
\* nearest, ties to even
ToUint8Clamped(q) ==
    IF RLe(q, R(0)) THEN 0
    ELSE IF RGe(q, R(255)) THEN 255
    ELSE LET f == RFloor(q)
             twice == 2 * (q[1] - f * q[2])
         IN  IF twice < q[2] THEN f
             ELSE IF twice > q[2] THEN f + 1
             ELSE IF f % 2 = 0 THEN f ELSE f + 1

\* a contrast factor that is linear in the contrast
contrastFactorLinear(contrast) == Norm(contrast + 255, 255)

\* contrastFactor = (259 * (contrast + 255)) / (255 * (259 - contrast))
contrastFactor(contrast) == Norm(259 * (contrast + 255), 255 * (259 - contrast))

\* one channel of applyBrightnessContrast
channelBC(v, brightness, contrast) ==
    LET pixel1 == R(v + brightness)
        pixel2 == RAdd(RMul(contrastFactor(contrast), RSub(pixel1, R(128))), R(128))
    IN  ToUint8Clamped(RMax(R(0), RMin(R(255), pixel2)))

\* applyBrightnessContrast that writes an opaque alpha
applyBrightnessContrastOpaque(p, brightness, contrast) ==
    <<channelBC(p[1], brightness, contrast),
      channelBC(p[2], brightness, contrast),
      channelBC(p[3], brightness, contrast),
      255>>

\* applyBrightnessContrast on one pixel: R, G, B adjusted, alpha copied
applyBrightnessContrast(p, brightness, contrast) ==
    <<channelBC(p[1], brightness, contrast),
      channelBC(p[2], brightness, contrast),
      channelBC(p[3], brightness, contrast),
      p[4]>>

\* the plain average of the three channels
MixUnweighted(p, a, b, c) == Norm(p[1] + p[2] + p[3], 3)

\* a * r + b * g + c * bl with coefficients in thousandths
Mix(p, a, b, c) == Norm(a * p[1] + b * p[2] + c * p[3], 1000)

\* applyFilter on one pixel
applyFilter(p, filterType) ==
    CASE filterType = "grayscale" ->
           LET gray == ToUint8Clamped(Mix(p, 299, 587, 114))
           IN  <<gray, gray, gray, p[4]>>
      [] filterType = "sepia" ->
           <<ToUint8Clamped(RMin(R(255), Mix(p, 393, 769, 189))),
             ToUint8Clamped(RMin(R(255), Mix(p, 349, 686, 168))),
             ToUint8Clamped(RMin(R(255), Mix(p, 272, 534, 131))),
             p[4]>>
      [] filterType = "vintage" ->
           <<ToUint8Clamped(RMin(R(255), Norm(12 * p[1] + 200, 10))),
             ToUint8Clamped(RMin(R(255), Norm(11 * p[2] + 100, 10))),
             ToUint8Clamped(RMax(R(0), Norm(8 * p[3] - 100, 10))),
             p[4]>>
      [] filterType = "cool" ->
           <<ToUint8Clamped(RMax(R(0), Norm(8 * p[1], 10))),
             ToUint8Clamped(RMin(R(255), Norm(11 * p[2], 10))),
             ToUint8Clamped(RMin(R(255), Norm(13 * p[3], 10))),
             p[4]>>
      [] filterType = "warm" ->
           <<ToUint8Clamped(RMin(R(255), Norm(12 * p[1], 10))),
             ToUint8Clamped(RMin(R(255), Norm(11 * p[2], 10))),
             ToUint8Clamped(RMax(R(0), Norm(7 * p[3], 10))),
             p[4]>>
      [] OTHER -> p

\* activeFilter null is "none"
NoFilter == "none"

\* the two steps in the other order: the filter first, brightness / contrast after
processedPixelFilterFirst(p, brightness, contrast, activeFilter) ==
    LET p1 == IF activeFilter # NoFilter THEN applyFilter(p, activeFilter) ELSE p
    IN  IF brightness # 0 \/ contrast # 0
        THEN applyBrightnessContrast(p1, brightness, contrast)
        ELSE p1

\* the pixel transform of applyImageAdjustments: both steps with their guards
processedPixel(p, brightness, contrast, activeFilter) ==
    LET p1 == IF brightness # 0 \/ contrast # 0
              THEN applyBrightnessContrast(p, brightness, contrast)
              ELSE p
    IN  IF activeFilter # NoFilter THEN applyFilter(p1, activeFilter) ELSE p1

-----------------------------------------------------------------------------
(* Bitmaps *)

\* the images a user can upload: <<width, height>> of image 1, ...
ImageSizes == <<<<130, 72>>>>
Images == DOMAIN ImageSizes
ImageWidth(img) == ImageSizes[img][1]
ImageHeight(img) == ImageSizes[img][2]

\* the decoded pixel (x, y) of image img: opaque, and different at different
\* places of one image
SrcPixel(img, x, y) == <<(3 * x) % 256, (4 * y) % 256, (x + 2 * y + 40 * img) % 256, 255>>

ZeroRect == Rect(R(0), R(0), R(0), R(0))

\* one drawing operation; w, h are the size of the bitmap after it
Op(op, w, h) ==
    [op |-> op, w |-> w, h |-> h, img |-> 0, x |-> 0, y |-> 0,
     b |-> 0, c |-> 0, f |-> NoFilter, rect |-> ZeroRect]

\* a canvas element as created: 300 x 150, transparent
DefaultCanvasWidth == 300
DefaultCanvasHeight == 150
BlankCanvas == <<Op("blank", DefaultCanvasWidth, DefaultCanvasHeight)>>

BmWidth(bm) == bm[Len(bm)].w
BmHeight(bm) == bm[Len(bm)].h

\* ctx.strokeRect(x, y, width, height) with lineWidth 2: the pixels the stroke
\* touches.  Pixels it covers only in part are anti-aliased in a browser; the
\* model paints every touched pixel white.
lineWidth == 2
StrokeTouches(r, i, j) ==
    LET hw == Norm(lineWidth, 2)
        ox0 == RSub(r.x, hw)
        oy0 == RSub(r.y, hw)
        ox1 == RAdd(RAdd(r.x, r.width), hw)
        oy1 == RAdd(RAdd(r.y, r.height), hw)
        ix0 == RAdd(r.x, hw)
        iy0 == RAdd(r.y, hw)
        ix1 == RSub(RAdd(r.x, r.width), hw)
        iy1 == RSub(RAdd(r.y, r.height), hw)
    IN  /\ RGt(R(i + 1), ox0) /\ RLt(R(i), ox1)
        /\ RGt(R(j + 1), oy0) /\ RLt(R(j), oy1)
        /\ ~(RGe(R(i), ix0) /\ RLe(R(i + 1), ix1) /\ RGe(R(j), iy0) /\ RLe(R(j + 1), iy1))

RECURSIVE PixelAtN(_, _, _, _)
PixelAtN(bm, n, i, j) ==
    LET o == bm[n]
    IN  IF i < 0 \/ j < 0 \/ i >= o.w \/ j >= o.h THEN Transparent
        ELSE CASE o.op = "blank" -> Transparent
               [] o.op = "img" ->
                    \* ctx.drawImage(img, 0, 0) on a canvas of the image's size
                    SrcPixel(o.img, i, j)
               [] o.op = "crop" ->
                    \* getImageData(x, y, w, h) drawn at (0, 0) of the resized canvas
                    PixelAtN(bm, n - 1, o.x + i, o.y + j)
               [] o.op = "rot" ->
                    \* rotate(Math.PI / 2) about the centre: new (i, j) is old (j, H - 1 - i)
                    PixelAtN(bm, n - 1, j, o.w - 1 - i)
               [] o.op = "adj" ->
                    \* clearRect, then putImageData(processedData, 0, 0)
                    IF i < bm[n - 1].w /\ j < bm[n - 1].h
                    THEN processedPixel(PixelAtN(bm, n - 1, i, j), o.b, o.c, o.f)
                    ELSE Transparent
               [] o.op = "put" ->
                    \* clearRect, then putImageData(originalImageData, 0, 0)
                    IF i < bm[n - 1].w /\ j < bm[n - 1].h
                    THEN PixelAtN(bm, n - 1, i, j)
                    ELSE Transparent
               [] o.op = "ovl" ->
                    \* clearRect, drawImage(img, 0, 0), strokeRect(cropRect)
                    IF StrokeTouches(o.rect, i, j) THEN White
                    ELSE IF i < ImageWidth(o.img) /\ j < ImageHeight(o.img)
                         THEN SrcPixel(o.img, i, j)
                         ELSE Transparent

PixelAt(bm, i, j) == PixelAtN(bm, Len(bm), i, j)

\* the same image: same size, same pixel everywhere (as for two bitmaps drawn
\* by the same operations)
SameBitmap(a, b) ==
    \/ a = b
    \/ /\ BmWidth(a) = BmWidth(b)
       /\ BmHeight(a) = BmHeight(b)
       /\ \A i \in 0..(BmWidth(a) - 1) : \A j \in 0..(BmHeight(a) - 1) :
             PixelAt(a, i, j) = PixelAt(b, i, j)


-----------------------------------------------------------------------------
(* State *)

VARIABLES
    uploadedImage,      \* useState: the uploaded image (0 is null)
    isCropping,         \* useState
    cropRect,           \* useState: Null or Some(rectangle)
    isDragging,         \* useState
    dragStart,          \* useState: Null or Some(<<x, y>>)
    dragType,           \* useState: "none" is null
    aspectRatio,        \* useState: Null or Some(ratio)
    brightness,         \* useState
    contrast,           \* useState
    activeFilter,       \* useState: NoFilter is null
    originalImageData,  \* useState: Null or a bitmap
    canvas,             \* the canvas element: its size and content (a bitmap)
    pending,            \* the Image objects whose onload has not run yet
    lastOp,             \* history: the last action
    lastArg,            \* history: the filter a filter button asked for
    pressed,            \* history: Some(mousePos) right after handleMouseDown or a drag step, else Null
    prev,               \* history: the state the last action started from
    afterLoad,          \* history: the canvas when the last image load completed
    adjOnly,            \* history: only adjustment events since that load
    nUploads,           \* number of uploads so far
    nEvents,            \* number of other user events so far
    nMoves              \* number of pointer-move events so far

engine == <<uploadedImage, isCropping, cropRect, isDragging, dragStart, dragType,
            aspectRatio, brightness, contrast, activeFilter, originalImageData, canvas>>

vars == <<uploadedImage, isCropping, cropRect, isDragging, dragStart, dragType,
          aspectRatio, brightness, contrast, activeFilter, originalImageData, canvas,
          pending, lastOp, lastArg, pressed, prev, afterLoad, adjOnly, nUploads, nEvents, nMoves>>

Snapshot ==
    [isCropping |-> isCropping, cropRect |-> cropRect, isDragging |-> isDragging,
     dragStart |-> dragStart, dragType |-> dragType, aspectRatio |-> aspectRatio,
     brightness |-> brightness, contrast |-> contrast, activeFilter |-> activeFilter,
     originalImageData |-> originalImageData, canvas |-> canvas]

\* what an action that keeps no history leaves in prev
NoHistory ==
    [isCropping |-> FALSE, cropRect |-> Null, isDragging |-> FALSE,
     dragStart |-> Null, dragType |-> "none", aspectRatio |-> Null,
     brightness |-> 0, contrast |-> 0, activeFilter |-> NoFilter,
     originalImageData |-> Null, canvas |-> <<>>]

\* the crop session only
SessionHistory ==
    [NoHistory EXCEPT !.isCropping = isCropping, !.cropRect = cropRect,
                      !.isDragging = isDragging, !.dragStart = dragStart,
                      !.dragType = dragType, !.aspectRatio = aspectRatio]

\* the adjustment state only
AdjustmentHistory ==
    [NoHistory EXCEPT !.brightness = brightness, !.contrast = contrast,
                      !.activeFilter = activeFilter]

LoadTask(img) == [kind |-> "load", img |-> img, rect |-> ZeroRect]
OverlayTask(img, r) == [kind |-> "ovl", img |-> img, rect |-> r]

Init ==
    /\ uploadedImage = 0
    /\ isCropping = FALSE
    /\ cropRect = Null
    /\ isDragging = FALSE
    /\ dragStart = Null
    /\ dragType = "none"
    /\ aspectRatio = Null
    /\ brightness = 0
    /\ contrast = 0
    /\ activeFilter = NoFilter
    /\ originalImageData = Null
    /\ canvas = BlankCanvas
    /\ pending = {}
    /\ lastOp = "init"
    /\ lastArg = NoFilter
    /\ pressed = Null
    /\ prev = NoHistory
    /\ afterLoad = BlankCanvas
    /\ adjOnly = FALSE
    /\ nUploads = 0
    /\ nEvents = 0
    /\ nMoves = 0

-----------------------------------------------------------------------------
(* Inputs *)

\* the canvas on the page: displayed at 1 / DisplayShrink of its pixel size
\* (CSS max-w-full / max-h-96), with its corner at (DisplayLeft, DisplayTop)
DisplayShrink == 2
DisplayLeft == 16
DisplayTop == 24

\* canvas.getBoundingClientRect()
BoundingClientRect(cw, ch) ==
    [left |-> R(DisplayLeft), top |-> R(DisplayTop),
     width |-> Norm(cw, DisplayShrink), height |-> Norm(ch, DisplayShrink)]

\* the client point that lies over point p of the canvas bitmap
ClientPointOver(p, cw, ch) ==
    <<RAdd(R(DisplayLeft), Norm(p[1][1], p[1][2] * DisplayShrink)),
      RAdd(R(DisplayTop), Norm(p[2][1], p[2][2] * DisplayShrink))>>

\* getMousePos without the scale factors
getMousePosUnscaled(clientX, clientY, cw, ch) ==
    LET rect == BoundingClientRect(cw, ch)
    IN  <<RSub(clientX, rect.left), RSub(clientY, rect.top)>>

\* getMousePos
getMousePos(clientX, clientY, cw, ch) ==
    LET rect == BoundingClientRect(cw, ch)
        scaleX == RDiv(R(cw), rect.width)
        scaleY == RDiv(R(ch), rect.height)
    IN  <<RMul(RSub(clientX, rect.left), scaleX), RMul(RSub(clientY, rect.top), scaleY)>>

\* brightness and contrast sliders, filter buttons, aspect-ratio buttons
BrightnessValues == {0, 50}
ContrastValues == {-40}
FilterButtons == {"grayscale", "sepia"}
RatioButtons == {Null, Some(R(1)), Some(<<16, 9>>)}

\* pointer travel between two pointer events, per axis
Deltas == {-30, -12, 50}

OnCanvas(p, cw, ch) ==
    RGe(p[1], R(0)) /\ RLe(p[1], R(cw)) /\ RGe(p[2], R(0)) /\ RLe(p[2], R(ch))

\* where a user presses: on a corner, on the middle of an edge, in the middle of
\* the rectangle (each as near as the canvas allows), or at the canvas corner
PressPoints(r, cw, ch) ==
    LET xs == {r.x, RAdd(r.x, RHalf(r.width)), RAdd(r.x, r.width)}
        ys == {r.y, RAdd(r.y, RHalf(r.height)), RAdd(r.y, r.height)}
    IN  {<<Clamp0(x, R(cw)), Clamp0(y, R(ch))>> : x \in xs, y \in ys} \cup {<<R(0), R(0)>>}

PointerTargets ==
    IF isDragging /\ ~IsNull(dragStart)
    THEN {p \in {<<RAdd(dragStart[1][1], R(dx)), RAdd(dragStart[1][2], R(dy))>> :
                    dx \in Deltas, dy \in Deltas} :
            OnCanvas(p, BmWidth(canvas), BmHeight(canvas))}
    ELSE IF ~IsNull(cropRect)
         THEN PressPoints(cropRect[1], BmWidth(canvas), BmHeight(canvas))
         ELSE {<<R(0), R(0)>>}


-----------------------------------------------------------------------------
(* Canvas operations *)

\* img.onload of loadImageToCanvas: canvas.width = img.width, canvas.height =
\* img.height, drawImage(img, 0, 0)
drawLoadedImage(img) ==
    <<[Op("img", ImageWidth(img), ImageHeight(img)) EXCEPT !.img = img]>>

\* applyImageAdjustments (originalImageData not null), on the canvas cv
applyImageAdjustments(orig, b, c, f, cv) ==
    Append(orig, [Op("adj", BmWidth(cv), BmHeight(cv)) EXCEPT !.b = b, !.c = c, !.f = f])

\* an effect that adjusts the pixels the canvas shows, in place
adjustmentsEffectInPlace(changed, orig, b, c, f, cv) ==
    IF changed /\ ~IsNull(orig) THEN applyImageAdjustments(cv, b, c, f, cv) ELSE cv

\* an effect that runs applyImageAdjustments and runs it again on its output
adjustmentsEffectTwice(changed, orig, b, c, f, cv) ==
    IF changed /\ ~IsNull(orig)
    THEN applyImageAdjustments(applyImageAdjustments(orig, b, c, f, cv), b, c, f, cv)
    ELSE cv

\* the effect on [brightness, contrast, activeFilter, originalImageData]
adjustmentsEffect(changed, orig, b, c, f, cv) ==
    IF changed /\ ~IsNull(orig) THEN applyImageAdjustments(orig, b, c, f, cv) ELSE cv

\* resetAdjustments: clearRect and putImageData(originalImageData, 0, 0), which is
\* what applyImageAdjustments draws for brightness 0, contrast 0 and no filter
restoreOriginal(orig, cv) ==
    IF IsNull(orig) THEN cv ELSE applyImageAdjustments(orig, 0, 0, NoFilter, cv)

\* img.onload of drawCropOverlay: clearRect, drawImage(img, 0, 0), strokeRect
drawOverlay(img, r, cv) ==
    <<[Op("ovl", BmWidth(cv), BmHeight(cv)) EXCEPT !.img = img, !.rect = r]>>

\* confirmCrop: the cropped portion of the canvas, on a canvas of that size
cropCanvas(cv, r) ==
    Append(cv, [Op("crop", RTrunc(r.width), RTrunc(r.height))
                  EXCEPT !.x = RTrunc(r.x), !.y = RTrunc(r.y)])

\* rotateImage: the canvas turned by 90 degrees, width and height swapped
rotateCanvas(cv) == Append(cv, Op("rot", BmHeight(cv), BmWidth(cv)))

\* the effect on [cropRect]: drawCropOverlay starts loading the current image
overlayEffect(cropping, rectOpt, img) ==
    IF cropping /\ ~IsNull(rectOpt) /\ img # 0
    THEN {OverlayTask(img, rectOpt[1])}
    ELSE {}

-----------------------------------------------------------------------------
(* Actions *)

\* history kept by every user event
UserEvent(name, isAdjustment, history) ==
    /\ nEvents < MaxEvents
    /\ nEvents' = nEvents + 1
    /\ lastOp' = name
    /\ prev' = history
    /\ name \notin {"handleMouseDown", "handleMouseMove"} => pressed' = Null
    /\ adjOnly' = (adjOnly /\ isAdjustment)
    /\ afterLoad' = afterLoad

\* handleFileUpload (reader.onload): setUploadedImage, loadImageToCanvas
fileReaderOnload(limit, img) ==
    /\ nUploads < limit
    /\ nUploads' = nUploads + 1
    /\ lastOp' = "handleFileUpload"
    /\ pressed' = Null
    /\ prev' = NoHistory
    /\ adjOnly' = FALSE
    /\ uploadedImage' = img
    /\ isCropping' = FALSE
    /\ cropRect' = Null
    /\ pending' = pending \cup {LoadTask(img)}
    /\ UNCHANGED <<isDragging, dragStart, dragType, aspectRatio, brightness, contrast,
                   activeFilter, originalImageData, canvas, lastArg, afterLoad,
                   nEvents, nMoves>>

\* handleFileUpload, at most MaxUploads times in one behaviour
handleFileUpload(img) == fileReaderOnload(MaxUploads, img)

\* img.onload of loadImageToCanvas
loadImageOnload(t) ==
    /\ t \in pending
    /\ t.kind = "load"
    /\ pending' = pending \ {t}
    /\ originalImageData' = drawLoadedImage(t.img)
    /\ brightness' = 0
    /\ contrast' = 0
    /\ activeFilter' = NoFilter
    /\ canvas' = adjustmentsEffect(TRUE, originalImageData', 0, 0, NoFilter,
                                   drawLoadedImage(t.img))
    /\ lastOp' = "loadImageOnload"
    /\ pressed' = Null
    /\ prev' = NoHistory
    /\ afterLoad' = canvas'
    /\ adjOnly' = TRUE
    /\ UNCHANGED <<uploadedImage, isCropping, cropRect, isDragging, dragStart, dragType,
                   aspectRatio, lastArg, nUploads, nEvents, nMoves>>

\* img.onload of drawCropOverlay
drawCropOverlayOnload(t) ==
    /\ t \in pending
    /\ t.kind = "ovl"
    /\ pending' = pending \ {t}
    /\ canvas' = drawOverlay(t.img, t.rect, canvas)
    /\ lastOp' = "drawCropOverlayOnload"
    /\ pressed' = Null
    /\ prev' = NoHistory
    /\ UNCHANGED <<uploadedImage, isCropping, cropRect, isDragging, dragStart, dragType,
                   aspectRatio, brightness, contrast, activeFilter, originalImageData,
                   lastArg, afterLoad, adjOnly, nUploads, nEvents, nMoves>>

\* Math.min(canvas.width, canvas.height) * 0.5, centred
initialCropRect(cw, ch) ==
    LET initialSize == RHalf(R(IF cw <= ch THEN cw ELSE ch))
    IN  Rect(RHalf(RSub(R(cw), initialSize)), RHalf(RSub(R(ch), initialSize)),
             initialSize, initialSize)

\* startCrop (the button is disabled while cropping or without an image)
startCrop ==
    /\ uploadedImage # 0
    /\ ~isCropping
    /\ UserEvent("startCrop", FALSE, NoHistory)
    /\ cropRect' = Some(initialCropRect(BmWidth(canvas), BmHeight(canvas)))
    /\ isCropping' = TRUE
    /\ pending' = pending \cup overlayEffect(TRUE, cropRect', uploadedImage)
    /\ UNCHANGED <<uploadedImage, isDragging, dragStart, dragType, aspectRatio, brightness,
                   contrast, activeFilter, originalImageData, canvas, lastArg, nUploads, nMoves>>

\* cancelCrop (the button is shown while cropping)
cancelCrop ==
    /\ isCropping
    /\ UserEvent("cancelCrop", FALSE, NoHistory)
    /\ isCropping' = FALSE
    /\ cropRect' = Null
    /\ aspectRatio' = Null
    /\ isDragging' = FALSE
    /\ dragStart' = Null
    /\ dragType' = "none"
    /\ pending' = pending \cup (IF uploadedImage # 0 THEN {LoadTask(uploadedImage)} ELSE {})
    /\ UNCHANGED <<uploadedImage, brightness, contrast, activeFilter, originalImageData,
                   canvas, lastArg, nUploads, nMoves>>

\* confirmCrop (the button is shown while cropping, disabled without a rectangle);
\* getImageData throws for a region of width or height 0
confirmCrop ==
    /\ isCropping
    /\ ~IsNull(cropRect)
    /\ UserEvent("confirmCrop", FALSE, Snapshot)
    /\ IF RTrunc(cropRect[1].width) = 0 \/ RTrunc(cropRect[1].height) = 0
       THEN UNCHANGED <<isCropping, cropRect, aspectRatio, isDragging, dragStart, dragType,
                        originalImageData, canvas>>
       ELSE /\ isCropping' = FALSE
            /\ cropRect' = Null
            /\ aspectRatio' = Null
            /\ isDragging' = FALSE
            /\ dragStart' = Null
            /\ dragType' = "none"
            /\ originalImageData' = cropCanvas(canvas, cropRect[1])
            /\ canvas' = adjustmentsEffect(TRUE, originalImageData', brightness, contrast,
                                           activeFilter, originalImageData')
    /\ UNCHANGED <<uploadedImage, brightness, contrast, activeFilter, pending, lastArg,
                   nUploads, nMoves>>

\* handleMouseDown without setDragStart(mousePos)
handleMouseDownKeepsAnchor(p) ==
    /\ UserEvent("handleMouseDown", FALSE, SessionHistory)
    /\ LET client == ClientPointOver(p, BmWidth(canvas), BmHeight(canvas))
           mousePos == getMousePos(client[1], client[2], BmWidth(canvas), BmHeight(canvas))
           dragTypeResult == getDragType(cropRect, mousePos[1], mousePos[2])
       IN  /\ pressed' = Some(mousePos)
           /\ IF isCropping /\ ~IsNull(cropRect) /\ dragTypeResult # "none"
              THEN /\ isDragging' = TRUE
                   /\ dragType' = dragTypeResult
                   /\ UNCHANGED dragStart
              ELSE UNCHANGED <<isDragging, dragStart, dragType>>
    /\ UNCHANGED <<uploadedImage, isCropping, cropRect, aspectRatio, brightness, contrast,
                   activeFilter, originalImageData, canvas, pending, lastArg, nUploads, nMoves>>

\* handleMouseDown, for a pointer over point p of the canvas
handleMouseDown(p) ==
    /\ UserEvent("handleMouseDown", FALSE, SessionHistory)
    /\ LET client == ClientPointOver(p, BmWidth(canvas), BmHeight(canvas))
           mousePos == getMousePos(client[1], client[2], BmWidth(canvas), BmHeight(canvas))
           dragTypeResult == getDragType(cropRect, mousePos[1], mousePos[2])
       IN  /\ pressed' = Some(mousePos)
           /\ IF isCropping /\ ~IsNull(cropRect) /\ dragTypeResult # "none"
              THEN /\ isDragging' = TRUE
                   /\ dragStart' = Some(mousePos)
                   /\ dragType' = dragTypeResult
              ELSE UNCHANGED <<isDragging, dragStart, dragType>>
    /\ UNCHANGED <<uploadedImage, isCropping, cropRect, aspectRatio, brightness, contrast,
                   activeFilter, originalImageData, canvas, pending, lastArg, nUploads, nMoves>>

\* a hover branch that stores the handle under the pointer in the dragType state
hoverDragTypeStored(current, rectOpt, mx, my) == getDragType(rectOpt, mx, my)

\* handleMouseMove without a drag: the handle under the pointer only selects
\* canvas.style.cursor, the dragType state keeps its value
hoverDragType(current, rectOpt, mx, my) == current

\* handleMouseMove, for a pointer over point p of the canvas
handleMouseMove(p) ==
    /\ nMoves < MaxMoves
    /\ nMoves' = nMoves + 1
    /\ UserEvent("handleMouseMove", FALSE, SessionHistory)
    /\ LET cw == BmWidth(canvas)
           ch == BmHeight(canvas)
           client == ClientPointOver(p, cw, ch)
           mousePos == getMousePos(client[1], client[2], cw, ch)
       IN  /\ IF isCropping /\ ~IsNull(cropRect) /\ isDragging /\ ~IsNull(dragStart)
                 /\ dragType # "none"
              THEN /\ cropRect' = Some(dragStep(dragType, cropRect[1],
                                                RSub(mousePos[1], dragStart[1][1]),
                                                RSub(mousePos[2], dragStart[1][2]),
                                                aspectRatio, cw, ch))
                   /\ dragStart' = Some(mousePos)
                   /\ pressed' = Some(mousePos)
                   /\ pending' = pending \cup overlayEffect(isCropping, cropRect', uploadedImage)
              ELSE /\ pressed' = Null
                   /\ UNCHANGED <<cropRect, dragStart, pending>>
           /\ dragType' = IF isCropping /\ ~IsNull(cropRect)
                              /\ ~(isDragging /\ ~IsNull(dragStart) /\ dragType # "none")
                           THEN hoverDragType(dragType, cropRect, mousePos[1], mousePos[2])
                           ELSE dragType
    /\ UNCHANGED <<uploadedImage, isCropping, isDragging, aspectRatio, brightness,
                   contrast, activeFilter, originalImageData, canvas, lastArg, nUploads>>

\* handleMouseUp without setDragType(null)
handleMouseUpKeepsHandle ==
    /\ UserEvent("handleMouseUp", FALSE, NoHistory)
    /\ isDragging' = FALSE
    /\ dragStart' = Null
    /\ UNCHANGED <<uploadedImage, isCropping, cropRect, dragType, aspectRatio, brightness,
                   contrast, activeFilter, originalImageData, canvas, pending, lastArg,
                   nUploads, nMoves>>

\* handleMouseUp (onMouseUp and onMouseLeave)
handleMouseUp ==
    /\ UserEvent("handleMouseUp", FALSE, NoHistory)
    /\ isDragging' = FALSE
    /\ dragStart' = Null
    /\ dragType' = "none"
    /\ UNCHANGED <<uploadedImage, isCropping, cropRect, aspectRatio, brightness, contrast,
                   activeFilter, originalImageData, canvas, pending, lastArg, nUploads, nMoves>>

\* the aspect-ratio buttons (shown while cropping): onClick={() => setAspectRatio(r)}
setAspectRatio(r) ==
    /\ isCropping
    /\ UserEvent("setAspectRatio", FALSE, SessionHistory)
    /\ aspectRatio' = r
    /\ UNCHANGED <<uploadedImage, isCropping, cropRect, isDragging, dragStart, dragType,
                   brightness, contrast, activeFilter, originalImageData, canvas, pending,
                   lastArg, nUploads, nMoves>>

\* rotateImage (the button is disabled without an image)
rotateImage ==
    /\ uploadedImage # 0
    /\ UserEvent("rotateImage", FALSE, NoHistory)
    /\ canvas' = rotateCanvas(canvas)
    /\ UNCHANGED <<uploadedImage, isCropping, cropRect, isDragging, dragStart, dragType,
                   aspectRatio, brightness, contrast, activeFilter, originalImageData,
                   pending, lastArg, nUploads, nMoves>>

\* handleBrightnessChange (the slider is disabled without an image)
handleBrightnessChange(v) ==
    /\ uploadedImage # 0
    /\ UserEvent("handleBrightnessChange", TRUE, AdjustmentHistory)
    /\ brightness' = v
    /\ canvas' = adjustmentsEffect(v # brightness, originalImageData, v, contrast,
                                   activeFilter, canvas)
    /\ UNCHANGED <<uploadedImage, isCropping, cropRect, isDragging, dragStart, dragType,
                   aspectRatio, contrast, activeFilter, originalImageData, pending,
                   lastArg, nUploads, nMoves>>

\* handleContrastChange (the slider is disabled without an image)
handleContrastChange(v) ==
    /\ uploadedImage # 0
    /\ UserEvent("handleContrastChange", TRUE, AdjustmentHistory)
    /\ contrast' = v
    /\ canvas' = adjustmentsEffect(v # contrast, originalImageData, brightness, v,
                                   activeFilter, canvas)
    /\ UNCHANGED <<uploadedImage, isCropping, cropRect, isDragging, dragStart, dragType,
                   aspectRatio, brightness, activeFilter, originalImageData, pending,
                   lastArg, nUploads, nMoves>>

\* a filter button that selects without toggling
selectedFilter(current, filterType) == filterType

\* setActiveFilter(activeFilter === filterType ? null : filterType)
toggledFilter(current, filterType) == IF current = filterType THEN NoFilter ELSE filterType

\* handleFilterChange (the buttons are disabled without an image)
handleFilterChange(filterType) ==
    /\ uploadedImage # 0
    /\ UserEvent("handleFilterChange", TRUE, AdjustmentHistory)
    /\ lastArg' = filterType
    /\ activeFilter' = toggledFilter(activeFilter, filterType)
    /\ canvas' = adjustmentsEffect(activeFilter' # activeFilter, originalImageData,
                                   brightness, contrast, activeFilter', canvas)
    /\ UNCHANGED <<uploadedImage, isCropping, cropRect, isDragging, dragStart, dragType,
                   aspectRatio, brightness, contrast, originalImageData, pending, nUploads, nMoves>>

\* resetAdjustments without setActiveFilter(null)
resetAdjustmentsKeepsFilter ==
    /\ uploadedImage # 0
    /\ UserEvent("resetAdjustments", TRUE, AdjustmentHistory)
    /\ brightness' = 0
    /\ contrast' = 0
    /\ canvas' = adjustmentsEffect(brightness # 0 \/ contrast # 0,
                                   originalImageData, 0, 0, activeFilter,
                                   restoreOriginal(originalImageData, canvas))
    /\ UNCHANGED <<uploadedImage, isCropping, cropRect, isDragging, dragStart, dragType,
                   aspectRatio, activeFilter, originalImageData, pending, lastArg, nUploads,
                   nMoves>>

\* resetAdjustments (the button is disabled without an image)
resetAdjustments ==
    /\ uploadedImage # 0
    /\ UserEvent("resetAdjustments", TRUE, AdjustmentHistory)
    /\ brightness' = 0
    /\ contrast' = 0
    /\ activeFilter' = NoFilter
    /\ canvas' = adjustmentsEffect(brightness # 0 \/ contrast # 0 \/ activeFilter # NoFilter,
                                   originalImageData, 0, 0, NoFilter,
                                   restoreOriginal(originalImageData, canvas))
    /\ UNCHANGED <<uploadedImage, isCropping, cropRect, isDragging, dragStart, dragType,
                   aspectRatio, originalImageData, pending, lastArg, nUploads, nMoves>>

Next ==
    \/ \E img \in Images : handleFileUpload(img)
    \/ \E t \in pending : loadImageOnload(t)
    \/ \E t \in pending : drawCropOverlayOnload(t)
    \/ startCrop
    \/ cancelCrop
    \/ confirmCrop
    \/ \E p \in PointerTargets : handleMouseDown(p)
    \/ \E p \in PointerTargets : handleMouseMove(p)
    \/ handleMouseUp
    \/ \E r \in RatioButtons : setAspectRatio(r)
    \/ rotateImage
    \/ \E v \in BrightnessValues : handleBrightnessChange(v)
    \/ \E v \in ContrastValues : handleContrastChange(v)
    \/ \E f \in FilterButtons : handleFilterChange(f)
    \/ resetAdjustments

Spec == Init /\ [][Next]_vars


-----------------------------------------------------------------------------
(* Hit-testing on its own: a crop session over a loaded image with any of a  *)
(* set of rectangles, whose next event is a pointer-down on any point of a   *)
(* grid over the canvas.                                                     *)

HitRects ==
    {Rect(R(x), R(y), R(w), R(h)) : x \in {0, 40}, y \in {0, 20}, w \in {20, 30, 50},
                                    h \in {20, 45}}

HitGrid == {<<R(5 * i), R(5 * j)>> : i \in 0..26, j \in 0..14}

InitHit ==
    /\ uploadedImage = 1
    /\ isCropping = TRUE
    /\ cropRect \in {Some(r) : r \in HitRects}
    /\ isDragging = FALSE
    /\ dragStart = Null
    /\ dragType = "none"
    /\ aspectRatio = Null
    /\ brightness = 0
    /\ contrast = 0
    /\ activeFilter = NoFilter
    /\ originalImageData = drawLoadedImage(1)
    /\ canvas = applyImageAdjustments(originalImageData, 0, 0, NoFilter, originalImageData)
    /\ pending = {}
    /\ lastOp = "init"
    /\ lastArg = NoFilter
    /\ pressed = Null
    /\ prev = NoHistory
    /\ afterLoad = canvas
    /\ adjOnly = FALSE
    /\ nUploads = 1
    /\ nEvents = MaxEvents - 1
    /\ nMoves = 0

NextHit == \E p \in HitGrid : handleMouseDown(p)

SpecHit == InitHit /\ [][NextHit]_vars

-----------------------------------------------------------------------------
(* Crop sessions across image loads: the pointer events and startCrop, with  *)
(* one upload more than in Spec, so that an image can be uploaded and loaded *)
(* while a session or a drag of the previous image is under way.             *)

MaxSessionUploads == MaxUploads + 1

handleFileUploadAgain(img) == fileReaderOnload(MaxSessionUploads, img)

NextReload ==
    \/ \E img \in Images : handleFileUploadAgain(img)
    \/ \E t \in pending : loadImageOnload(t)
    \/ \E t \in pending : drawCropOverlayOnload(t)
    \/ startCrop
    \/ \E p \in PointerTargets : handleMouseDown(p)
    \/ \E p \in PointerTargets : handleMouseMove(p)
    \/ handleMouseUp

SpecReload == Init /\ [][NextReload]_vars

-----------------------------------------------------------------------------
(* The adjustment handlers called with any filter identifier: handleFilter-  *)
(* Change takes a string, of which the buttons pass five.                    *)

SupportedFilters == {"grayscale", "sepia", "vintage", "cool", "warm"}
FilterIdentifiers == SupportedFilters \cup {"blur"}

NextFilter ==
    \/ \E img \in Images : handleFileUpload(img)
    \/ \E t \in pending : loadImageOnload(t)
    \/ \E v \in BrightnessValues : handleBrightnessChange(v)
    \/ \E v \in ContrastValues : handleContrastChange(v)
    \/ \E f \in FilterIdentifiers : handleFilterChange(f)
    \/ resetAdjustments

SpecFilter == Init /\ [][NextFilter]_vars

-----------------------------------------------------------------------------
(* One drag step on its own: a crop session over a loaded image in which a   *)
(* pointer-down has just started a drag, with any of a set of rectangles,    *)
(* any handle of it and any aspect-ratio setting; the next pointer event is  *)
(* a move by any of a set of deltas, or a pointer-up.                        *)

DragRects ==
    {Rect(R(47), R(18), R(36), R(36)), Rect(R(0), R(0), R(40), R(32)),
     Rect(R(90), R(40), R(40), R(32)), Rect(R(20), R(10), R(64), R(36)),
     Rect(R(50), R(20), R(21), R(21))}

\* pointer travel of the step, per axis
DragDeltas == {-30, -16, -12, 0, 5, 50}

DragTargets ==
    IF IsNull(dragStart) THEN {<<R(0), R(0)>>}
    ELSE {p \in {<<RAdd(dragStart[1][1], R(dx)), RAdd(dragStart[1][2], R(dy))>> :
                    dx \in DragDeltas, dy \in DragDeltas} :
             OnCanvas(p, BmWidth(canvas), BmHeight(canvas))}

InitDrag ==
    /\ uploadedImage = 1
    /\ isCropping = TRUE
    /\ cropRect \in {Some(r) : r \in DragRects}
    /\ isDragging = TRUE
    /\ dragStart \in {Some(p) : p \in PressPoints(cropRect[1], ImageWidth(1), ImageHeight(1))}
    /\ dragType = getDragType(cropRect, dragStart[1][1], dragStart[1][2])
    /\ dragType # "none"
    /\ aspectRatio \in RatioButtons
    /\ brightness = 0
    /\ contrast = 0
    /\ activeFilter = NoFilter
    /\ originalImageData = drawLoadedImage(1)
    /\ canvas = applyImageAdjustments(originalImageData, 0, 0, NoFilter, originalImageData)
    /\ pending = {}
    /\ lastOp = "init"
    /\ lastArg = NoFilter
    /\ pressed = Null
    /\ prev = NoHistory
    /\ afterLoad = canvas
    /\ adjOnly = FALSE
    /\ nUploads = 1
    /\ nEvents = MaxEvents - 2
    /\ nMoves = MaxMoves - 1

NextDrag ==
    \/ \E p \in DragTargets : handleMouseMove(p)
    \/ handleMouseUp

SpecDrag == InitDrag /\ [][NextDrag]_vars

-----------------------------------------------------------------------------
(* The aspect-ratio lock across image loads: startCrop, the aspect-ratio     *)
(* buttons and the uploads of SpecReload, so that an image can be uploaded   *)
(* while a session with a locked ratio is under way.                         *)

NextRelock ==
    \/ \E img \in Images : handleFileUploadAgain(img)
    \/ \E t \in pending : loadImageOnload(t)
    \/ \E t \in pending : drawCropOverlayOnload(t)
    \/ startCrop
    \/ \E r \in RatioButtons : setAspectRatio(r)

SpecRelock == Init /\ [][NextRelock]_vars

-----------------------------------------------------------------------------
(* The adjustment pipeline on its own: an original buffer of a few pixels    *)
(* (a small region of the loaded image, as a committed crop leaves it; the   *)
(* part of a region beyond the image's edge is transparent), any brightness, *)
(* contrast and filter, and the canvas showing the pipeline's output for     *)
(* them; the events are the adjustment handlers.                             *)

\* the corner (x, y) of each region; the regions are PixelRegionSize wide and high
PixelRegions == {<<0, 0>>, <<85, 63>>, <<129, 44>>, <<50, 10>>, <<129, 71>>}
PixelRegionSize == 2

PixelBrightness == {-100, 0, 50}
PixelContrast == {-40, 0, 50}

InitPixel ==
    /\ uploadedImage = 1
    /\ isCropping = FALSE
    /\ cropRect = Null
    /\ isDragging = FALSE
    /\ dragStart = Null
    /\ dragType = "none"
    /\ aspectRatio = Null
    /\ brightness \in PixelBrightness
    /\ contrast \in PixelContrast
    /\ activeFilter \in SupportedFilters \cup {NoFilter}
    /\ originalImageData \in
          {cropCanvas(drawLoadedImage(1),
                      Rect(R(c[1]), R(c[2]), R(PixelRegionSize), R(PixelRegionSize))) :
             c \in PixelRegions}
    /\ canvas = applyImageAdjustments(originalImageData, brightness, contrast, activeFilter,
                                      originalImageData)
    /\ pending = {}
    /\ lastOp = "init"
    /\ lastArg = NoFilter
    /\ pressed = Null
    /\ prev = NoHistory
    /\ afterLoad = canvas
    /\ adjOnly = FALSE
    /\ nUploads = 1
    /\ nEvents = MaxEvents - 1
    /\ nMoves = 0

NextPixel ==
    \/ \E v \in PixelBrightness : handleBrightnessChange(v)
    \/ \E v \in PixelContrast : handleContrastChange(v)
    \/ \E f \in SupportedFilters : handleFilterChange(f)
    \/ resetAdjustments

SpecPixel == InitPixel /\ [][NextPixel]_vars

-----------------------------------------------------------------------------
(* Claims *)

\* a drag step: handleMouseMove ran with a drag in progress and stored a rectangle
DragStepDone ==
    /\ lastOp = "handleMouseMove"
    /\ prev.isCropping /\ ~IsNull(prev.cropRect)
    /\ prev.isDragging /\ ~IsNull(prev.dragStart) /\ prev.dragType # "none"

\* its delta: mousePos - dragStart (dragStart is mousePos after the step)
StepDeltaX == RSub(dragStart[1][1], prev.dragStart[1][1])
StepDeltaY == RSub(dragStart[1][2], prev.dragStart[1][2])

IsInt(q) == q[2] = 1
PixelAligned(r) == IsInt(r.x) /\ IsInt(r.y) /\ IsInt(r.width) /\ IsInt(r.height)

WithinBounds(r, w, h) ==
    /\ RGe(r.x, R(0)) /\ RGe(r.y, R(0))
    /\ RLe(RAdd(r.x, r.width), R(w)) /\ RLe(RAdd(r.y, r.height), R(h))

\* C1: confirmCrop with a (pixel-aligned) rectangle R inside the original buffer
\* leaves a buffer of R.width x R.height whose pixel (i, j) is the pre-confirm
\* original buffer's pixel (R.x + i, R.y + j).
C1_CropIsSubBuffer ==
    (/\ lastOp = "confirmCrop"
     /\ ~IsNull(prev.cropRect) /\ ~IsNull(prev.originalImageData)
     /\ PixelAligned(prev.cropRect[1])
     /\ WithinBounds(prev.cropRect[1], BmWidth(prev.originalImageData),
                     BmHeight(prev.originalImageData)))
    => LET r == prev.cropRect[1]
           old == prev.originalImageData
       IN  /\ ~IsNull(originalImageData)
           /\ BmWidth(originalImageData) = r.width[1]
           /\ BmHeight(originalImageData) = r.height[1]
           /\ BmWidth(canvas) = r.width[1]
           /\ BmHeight(canvas) = r.height[1]
           /\ \A i \in 0..(r.width[1] - 1) : \A j \in 0..(r.height[1] - 1) :
                 PixelAt(originalImageData, i, j) = PixelAt(old, r.x[1] + i, r.y[1] + j)

\* C2: after an image load, whatever brightness / contrast / filter changes
\* followed, resetAdjustments leaves brightness 0, contrast 0, no filter and a
\* canvas identical to the canvas right after the load.
C2_ResetRestoresLoaded ==
    (lastOp = "resetAdjustments" /\ adjOnly)
    => /\ brightness = 0
       /\ contrast = 0
       /\ activeFilter = NoFilter
       /\ SameBitmap(canvas, afterLoad)

C2_Witness ==
    /\ lastOp = "resetAdjustments" /\ adjOnly
    /\ prev.brightness # 0 /\ prev.contrast # 0 /\ prev.activeFilter # NoFilter
    /\ brightness = 0
    /\ SameBitmap(canvas, afterLoad)

\* C3: after every drag step, with any handle, delta and aspect-ratio setting,
\* the rectangle lies within the canvas.
C3_DragStaysInBounds ==
    DragStepDone => WithinBounds(cropRect[1], BmWidth(canvas), BmHeight(canvas))

C3_Witness ==
    /\ DragStepDone
    /\ prev.dragType = "move"
    /\ RGt(RAdd(RAdd(prev.cropRect[1].x, prev.cropRect[1].width), StepDeltaX),
           R(BmWidth(canvas)))
    /\ RAdd(cropRect[1].x, cropRect[1].width) = R(BmWidth(canvas))

\* C4: whenever a crop rectangle exists, width >= 20 and height >= 20.
C4_MinSize ==
    ~IsNull(cropRect)
    => RGe(cropRect[1].width, R(MinSize)) /\ RGe(cropRect[1].height, R(MinSize))

RatioEps == <<1, 1000>>
HasRatio(r, ratio) ==
    /\ RGt(r.height, R(0))
    /\ LET d == RSub(RDiv(r.width, r.height), ratio)
       IN  RLe(d, RatioEps) /\ RGe(d, RSub(R(0), RatioEps))

\* C5: with an aspect ratio locked, after every resize drag step the rectangle
\* has width / height = ratio.
C5_LockedResizeKeepsRatio ==
    (DragStepDone /\ prev.dragType # "move" /\ ~IsNull(prev.aspectRatio))
    => HasRatio(cropRect[1], prev.aspectRatio[1])

CenterX(r) == RAdd(r.x, RHalf(r.width))
CenterY(r) == RAdd(r.y, RHalf(r.height))

\* C6: setAspectRatio(r), r not null, at once gives the rectangle width / height
\* = r, keeps its centre and keeps it within the canvas.
C6_SetAspectRatioReshapes ==
    (lastOp = "setAspectRatio" /\ ~IsNull(aspectRatio) /\ ~IsNull(prev.cropRect))
    => /\ ~IsNull(cropRect)
       /\ HasRatio(cropRect[1], aspectRatio[1])
       /\ CenterX(cropRect[1]) = CenterX(prev.cropRect[1])
       /\ CenterY(cropRect[1]) = CenterY(prev.cropRect[1])
       /\ WithinBounds(cropRect[1], BmWidth(canvas), BmHeight(canvas))

\* the width / height a resize handle proposes: the current size changed by the delta
ResizesWidth(t) == t \in {"resize-nw", "resize-ne", "resize-sw", "resize-se", "resize-w", "resize-e"}
ResizesHeight(t) == t \in {"resize-nw", "resize-ne", "resize-sw", "resize-se", "resize-n", "resize-s"}
ProposedWidth(t, r, dx) ==
    IF t \in {"resize-nw", "resize-sw", "resize-w"} THEN RSub(r.width, dx) ELSE RAdd(r.width, dx)
ProposedHeight(t, r, dy) ==
    IF t \in {"resize-nw", "resize-ne", "resize-n"} THEN RSub(r.height, dy) ELSE RAdd(r.height, dy)

TooSmallStep ==
    /\ DragStepDone
    /\ \/ /\ ResizesWidth(prev.dragType)
          /\ RLe(ProposedWidth(prev.dragType, prev.cropRect[1], StepDeltaX), R(MinSize))
       \/ /\ ResizesHeight(prev.dragType)
          /\ RLe(ProposedHeight(prev.dragType, prev.cropRect[1], StepDeltaY), R(MinSize))

C8_MoveClampsPosition ==
    (DragStepDone /\ prev.dragType = "move")
    => LET r == prev.cropRect[1]
           cw == BmWidth(canvas)
           ch == BmHeight(canvas)
       IN  /\ cropRect[1].x = Clamp0(RAdd(r.x, StepDeltaX), RSub(R(cw), r.width))
           /\ cropRect[1].y = Clamp0(RAdd(r.y, StepDeltaY), RSub(R(ch), r.height))
           /\ cropRect[1].width = r.width
           /\ cropRect[1].height = r.height
           /\ WithinBounds(cropRect[1], cw, ch)

\* the canvas holds the pipeline's output for (b, c, f) computed from orig
IsPipelineOutput(cv, orig, b, c, f) ==
    \/ cv = applyImageAdjustments(orig, b, c, f, cv)
    \/ \A i \in 0..(BmWidth(cv) - 1) : \A j \in 0..(BmHeight(cv) - 1) :
           PixelAt(cv, i, j) =
               IF i < BmWidth(orig) /\ j < BmHeight(orig)
               THEN processedPixel(PixelAt(orig, i, j), b, c, f)
               ELSE Transparent

GrayscaleAgain ==
    /\ lastOp = "handleFilterChange"
    /\ lastArg = "grayscale"
    /\ prev.activeFilter = "grayscale"

\* C9 as claimed: selecting Grayscale while Grayscale is active leaves the filter
\* Grayscale and the canvas equal to the Grayscale output.
C9_GrayscaleAgainKeepsIt ==
    GrayscaleAgain
    => /\ activeFilter = "grayscale"
       /\ ~IsNull(originalImageData)
          => IsPipelineOutput(canvas, originalImageData, brightness, contrast, "grayscale")

\* C9 amended: selecting Grayscale while Grayscale is active switches the filter
\* off: no filter is active and the canvas is the pipeline's output for the
\* current brightness and contrast without a filter.
C9_GrayscaleAgainTogglesOff ==
    GrayscaleAgain
    => /\ activeFilter = NoFilter
       /\ ~IsNull(originalImageData)
          => IsPipelineOutput(canvas, originalImageData, brightness, contrast, NoFilter)

C9_Witness ==
    /\ GrayscaleAgain
    /\ ~IsNull(originalImageData)
    /\ activeFilter = NoFilter
    /\ brightness # 0

\* the hit regions of a rectangle, stated apart from getDragType
NearPoint(p, cx, cy) ==
    InBox(p[1], p[2], RSub(cx, R(handleSize)), RAdd(cx, R(handleSize)),
          RSub(cy, R(handleSize)), RAdd(cy, R(handleSize)))
HandlePoint(r, t) ==
    CASE t = "resize-nw" -> <<r.x, r.y>>
      [] t = "resize-ne" -> <<RAdd(r.x, r.width), r.y>>
      [] t = "resize-sw" -> <<r.x, RAdd(r.y, r.height)>>
      [] t = "resize-se" -> <<RAdd(r.x, r.width), RAdd(r.y, r.height)>>
      [] t = "resize-n" -> <<CenterX(r), r.y>>
      [] t = "resize-s" -> <<CenterX(r), RAdd(r.y, r.height)>>
      [] t = "resize-w" -> <<r.x, CenterY(r)>>
      [] t = "resize-e" -> <<RAdd(r.x, r.width), CenterY(r)>>
Corners == {"resize-nw", "resize-ne", "resize-sw", "resize-se"}
Edges == {"resize-n", "resize-s", "resize-w", "resize-e"}
InSquareOf(r, p, t) == NearPoint(p, HandlePoint(r, t)[1], HandlePoint(r, t)[2])
InCorner(r, p) == \E t \in Corners : InSquareOf(r, p, t)
InEdge(r, p) == \E t \in Edges : InSquareOf(r, p, t)
InInterior(r, p) ==
    InBox(p[1], p[2], r.x, RAdd(r.x, r.width), r.y, RAdd(r.y, r.height))

\* a pointer-down on a session with no drag in progress, and the handle it chose
PressDone ==
    /\ lastOp = "handleMouseDown"
    /\ prev.isCropping /\ ~IsNull(prev.cropRect) /\ ~prev.isDragging
    /\ ~IsNull(pressed)
PressResult == IF isDragging THEN dragType ELSE "none"

\* C10: a pointer-down gets a corner handle wherever a corner's hit square holds
\* the point, an edge handle only inside an edge square and outside every corner
\* square, Move only for interior points outside all those squares; corner comes
\* before edge before Move, and a point in no region gets no handle.
C10_HitPriority ==
    PressDone
    => LET r == prev.cropRect[1]
           p == pressed[1]
           t == PressResult
       IN  /\ InCorner(r, p) => (t \in Corners /\ InSquareOf(r, p, t))
           /\ t \in Corners => InSquareOf(r, p, t)
           /\ t \in Edges => (InSquareOf(r, p, t) /\ ~InCorner(r, p))
           /\ (InEdge(r, p) /\ ~InCorner(r, p)) => t \in Edges
           /\ t = "move" => (InInterior(r, p) /\ ~InCorner(r, p) /\ ~InEdge(r, p))
           /\ (~InCorner(r, p) /\ ~InEdge(r, p) /\ ~InInterior(r, p)) => t = "none"

\* a point in a corner square and in an edge square got the corner
C10_Witness ==
    /\ PressDone
    /\ InCorner(prev.cropRect[1], pressed[1])
    /\ InEdge(prev.cropRect[1], pressed[1])
    /\ InInterior(prev.cropRect[1], pressed[1])
    /\ PressResult \in Corners

\* the guard of handleMouseMove's drag branch
DragInProgress ==
    /\ isCropping /\ ~IsNull(cropRect)
    /\ isDragging /\ ~IsNull(dragStart) /\ dragType # "none"

\* the step is the handling of one pointer-move or pointer-up event
PointerMoveOrUpStep ==
    /\ nEvents' = nEvents + 1
    /\ lastOp' \in {"handleMouseMove", "handleMouseUp"}

CropCommitted ==
    /\ lastOp = "confirmCrop"
    /\ prev.isCropping /\ ~IsNull(prev.cropRect)
    /\ ~isCropping

\* C12: after confirmCrop brightness = 0, contrast = 0 and no filter is active,
\* whatever they were, and the canvas equals the new cropped original buffer.
C12_ConfirmResetsAdjustments ==
    CropCommitted
    => /\ brightness = 0
       /\ contrast = 0
       /\ activeFilter = NoFilter
       /\ SameBitmap(canvas, originalImageData)

\* the step that completes a cancelCrop: the onload of the image it reloads,
\* run right after the cancelCrop handler (which changes neither buffer nor
\* adjustment), in a session over a loaded image
CancelCompletes ==
    /\ lastOp = "cancelCrop"
    /\ ~IsNull(originalImageData)
    /\ lastOp' = "loadImageOnload"

\* C13: cancelCrop leaves the original buffer and brightness, contrast and
\* filter as they were before it, and the canvas showing that original buffer
\* under those adjustments (an earlier crop or rotation is kept).
C13_CancelKeepsBuffers ==
    [][CancelCompletes
       => /\ UNCHANGED <<originalImageData, brightness, contrast, activeFilter>>
          /\ IsPipelineOutput(canvas', originalImageData, brightness, contrast,
                              activeFilter)]_vars

\* C14: startCrop on a loaded image, the canvas being W x H, leaves the session
\* active with no drag in progress and the square rectangle of side
\* s = min(W, H) / 2 at x = (W - s) / 2, y = (H - s) / 2.
C14_StartCropCentredIdle ==
    (lastOp = "startCrop" /\ ~IsNull(originalImageData))
    => LET W == BmWidth(canvas)
           H == BmHeight(canvas)
           side == RDiv(R(IF W <= H THEN W ELSE H), R(2))
       IN  /\ isCropping
           /\ cropRect = Some(Rect(RDiv(RSub(R(W), side), R(2)),
                                   RDiv(RSub(R(H), side), R(2)), side, side))
           /\ ~isDragging /\ dragStart = Null /\ dragType = "none"

\* the bitmap is the image, pixel for pixel
IsImage(bm, img) ==
    /\ BmWidth(bm) = ImageWidth(img)
    /\ BmHeight(bm) = ImageHeight(img)
    /\ \A i \in 0..(ImageWidth(img) - 1) : \A j \in 0..(ImageHeight(img) - 1) :
          PixelAt(bm, i, j) = SrcPixel(img, i, j)

\* C15: when a load completes (the image's onload has run), the original buffer
\* and the canvas both hold the loaded image, brightness = 0, contrast = 0, no
\* filter is active and no crop session or rectangle exists.
C15_LoadResetsEverything ==
    lastOp = "loadImageOnload"
    => /\ ~IsNull(originalImageData)
       /\ IsImage(originalImageData, uploadedImage)
       /\ IsImage(canvas, uploadedImage)
       /\ brightness = 0 /\ contrast = 0 /\ activeFilter = NoFilter
       /\ ~isCropping /\ cropRect = Null

\* C16: once an image is loaded, the canvas has the width and the height of the
\* original buffer (after a rotation and after a committed crop too).
C16_BuffersSameSize ==
    ~IsNull(originalImageData)
    => /\ BmWidth(canvas) = BmWidth(originalImageData)
       /\ BmHeight(canvas) = BmHeight(originalImageData)

\* the step is the handling of one brightness, contrast, filter or reset event
AdjustmentStep ==
    /\ nEvents' = nEvents + 1
    /\ lastOp' \in {"handleBrightnessChange", "handleContrastChange",
                    "handleFilterChange", "resetAdjustments"}

\* C17: an adjustment event never changes the original buffer; one that changes
\* a value, and every reset, leaves on the canvas the pipeline's output for the
\* original buffer and the values now set, whatever was set or drawn before;
\* one that changes no value leaves the canvas as it is.
C17_AdjustmentsFromOriginal ==
    [][AdjustmentStep
       => /\ UNCHANGED originalImageData
          /\ ~IsNull(originalImageData)
             => IF \/ <<brightness, contrast, activeFilter>>'
                        # <<brightness, contrast, activeFilter>>
                   \/ lastOp' = "resetAdjustments"
                THEN IsPipelineOutput(canvas', originalImageData, brightness', contrast',
                                      activeFilter')
                ELSE canvas' = canvas]_vars

\* brightness was set to 50 and back to 0 after the load: the canvas is the
\* loaded canvas again
C17_Witness ==
    /\ lastOp = "handleBrightnessChange" /\ adjOnly
    /\ prev.brightness = 50 /\ brightness = 0
    /\ contrast = 0 /\ activeFilter = NoFilter
    /\ ~IsNull(originalImageData)
    /\ SameBitmap(canvas, afterLoad)

NoLoadYet == afterLoad = BlankCanvas

\* C19: before the first load has completed, no user event (startCrop, pointer
\* down / move / up, brightness, contrast, filter, reset, rotate, confirmCrop,
\* cancelCrop) changes the session, the drag state, the adjustments or a buffer.
C19_NothingBeforeLoad ==
    [][(nEvents' = nEvents + 1 /\ NoLoadYet) => UNCHANGED engine]_vars

\* some part of a drag state is set
DragStateExists == isDragging \/ ~IsNull(dragStart) \/ dragType # "none"

\* C20: a drag state exists only in an active crop session with a rectangle, and
\* none is left by a pointer-up, cancelCrop, confirmCrop or an image load, nor
\* found by startCrop in the session it starts.
C20_DragStateOnlyInSession ==
    /\ DragStateExists => (isCropping /\ ~IsNull(cropRect))
    /\ lastOp \in {"handleMouseUp", "cancelCrop", "handleFileUpload", "loadImageOnload",
                   "startCrop"}
       => ~DragStateExists
    /\ (lastOp = "confirmCrop" /\ ~isCropping) => ~DragStateExists

\* the step is the handling of one user event (an upload included)
EventHandled == nEvents' = nEvents + 1 \/ nUploads' = nUploads + 1

\* C21: loadImage, cancelCrop and the overlay redraw complete within the handler
\* of their event: whenever a user event is handled, no image load and no
\* overlay redraw that an earlier event started is still waiting to complete.
C21_HandlersRunToCompletion ==
    [][EventHandled => pending = {}]_vars

\* the step is a rotation in a crop session over a loaded image, whose
\* rectangle lies within a non-square canvas
RotateInSession ==
    /\ nEvents' = nEvents + 1
    /\ lastOp' = "rotateImage"
    /\ ~IsNull(originalImageData)
    /\ isCropping /\ ~IsNull(cropRect)
    /\ BmWidth(canvas) # BmHeight(canvas)
    /\ WithinBounds(cropRect[1], BmWidth(canvas), BmHeight(canvas))

\* C22: a rotation during a crop session leaves the rectangle within the
\* rotated canvas, or ends the session (so that a confirmCrop right after it
\* extracts a region of the canvas).
C22_RotateKeepsRectInBounds ==
    [][RotateInSession
       => \/ ~isCropping'
          \/ /\ ~IsNull(cropRect')
             /\ WithinBounds(cropRect'[1], BmWidth(canvas'), BmHeight(canvas'))]_vars

\* the rectangle a corner handle proposes in free mode: the dragged corner moved
\* by the delta, the other three sides where they were
ProposedCornerRect(t, r, dx, dy) ==
    CASE t = "resize-nw" -> Rect(RAdd(r.x, dx), RAdd(r.y, dy), RSub(r.width, dx), RSub(r.height, dy))
      [] t = "resize-ne" -> Rect(r.x, RAdd(r.y, dy), RAdd(r.width, dx), RSub(r.height, dy))
      [] t = "resize-sw" -> Rect(RAdd(r.x, dx), r.y, RSub(r.width, dx), RAdd(r.height, dy))
      [] t = "resize-se" -> Rect(r.x, r.y, RAdd(r.width, dx), RAdd(r.height, dy))

\* a corner resize step in free mode on a rectangle that lay within the canvas
FreeCornerStep ==
    /\ DragStepDone
    /\ prev.dragType \in Corners
    /\ IsNull(prev.aspectRatio)
    /\ WithinBounds(prev.cropRect[1], BmWidth(canvas), BmHeight(canvas))

ProposedNow == ProposedCornerRect(prev.dragType, prev.cropRect[1], StepDeltaX, StepDeltaY)

OppositeCorner(t, r) ==
    CASE t = "resize-nw" -> <<RAdd(r.x, r.width), RAdd(r.y, r.height)>>
      [] t = "resize-ne" -> <<r.x, RAdd(r.y, r.height)>>
      [] t = "resize-sw" -> <<RAdd(r.x, r.width), r.y>>
      [] t = "resize-se" -> <<r.x, r.y>>

\* C24: in every corner resize step that changes the rectangle (which lay
\* within the canvas), free or aspect-locked, the corner opposite the dragged
\* handle stays where it was.
C24_OppositeCornerFixed ==
    (/\ DragStepDone
     /\ prev.dragType \in Corners
     /\ WithinBounds(prev.cropRect[1], BmWidth(canvas), BmHeight(canvas))
     /\ cropRect[1] # prev.cropRect[1])
    => OppositeCorner(prev.dragType, cropRect[1])
          = OppositeCorner(prev.dragType, prev.cropRect[1])

\* the step is the completion of an overlay redraw over a loaded image: the
\* onload of the image that drawCropOverlay started to load draws the image and
\* the outline
OverlayRedrawCompletes ==
    /\ ~NoLoadYet
    /\ lastOp' = "drawCropOverlayOnload"
    /\ pending' # pending

\* C25: an overlay redraw completes only while the crop session that started it
\* is active: once confirmCrop or cancelCrop has ended the session, no image
\* and no outline is drawn over the canvas.
C25_NoOverlayAfterCommit ==
    [][OverlayRedrawCompletes => isCropping]_vars

\* the handle under the pressed point, "none" for a point in no hit region
PressedHandle == getDragType(prev.cropRect, pressed[1][1], pressed[1][2])

\* C26: a pointer-down in an idle session leaves the session active and the
\* rectangle unchanged; if the point hits no handle no drag starts, and if it
\* hits handle h a drag of h starts with the pressed point as its anchor.
C26_PressStartsDrag ==
    PressDone
    => /\ isCropping
       /\ cropRect = prev.cropRect
       /\ IF PressedHandle = "none"
          THEN ~isDragging /\ dragStart = Null /\ dragType = "none"
          ELSE isDragging /\ dragType = PressedHandle /\ dragStart = pressed

\* a press on the interior started a Move drag anchored at the pressed point
C26_Witness ==
    /\ PressDone
    /\ PressedHandle = "move"
    /\ isDragging /\ dragType = "move" /\ dragStart = pressed
    /\ cropRect = prev.cropRect

\* C27: a pointer-move handled while a drag of handle h is in progress leaves
\* the drag in progress with the same handle and the anchor at the pointer's
\* position, whether the step changed the rectangle or not; a pointer-up
\* handled while a drag is in progress ends the drag, leaving the session
\* active and the rectangle unchanged.
C27_DragAnchorFollowsPointer ==
    [][/\ (nEvents' = nEvents + 1 /\ lastOp' = "handleMouseMove" /\ DragInProgress)
          => /\ ~IsNull(pressed')
             /\ dragStart' = pressed'
             /\ isDragging' /\ dragType' = dragType
             /\ isCropping' /\ ~IsNull(cropRect')
       /\ (nEvents' = nEvents + 1 /\ lastOp' = "handleMouseUp" /\ DragInProgress)
          => /\ ~isDragging' /\ dragStart' = Null /\ dragType' = "none"
             /\ isCropping' /\ cropRect' = cropRect]_vars

\* a refused resize step moved the anchor to the pointer all the same
C27_Witness ==
    /\ TooSmallStep
    /\ cropRect = prev.cropRect
    /\ isDragging /\ dragType = prev.dragType
    /\ dragStart = pressed
    /\ dragStart # prev.dragStart

\* the guard of an edge case passed: the proposed size is above 20 and the
\* dragged edge stays within the canvas
EdgeStepAccepted(t, r, dx, dy, cw, ch) ==
    CASE t = "resize-n" -> RGt(RSub(r.height, dy), R(MinSize)) /\ RGe(RAdd(r.y, dy), R(0))
      [] t = "resize-s" -> RGt(RAdd(r.height, dy), R(MinSize))
                           /\ RLe(RAdd(r.y, RAdd(r.height, dy)), R(ch))
      [] t = "resize-w" -> RGt(RSub(r.width, dx), R(MinSize)) /\ RGe(RAdd(r.x, dx), R(0))
      [] t = "resize-e" -> RGt(RAdd(r.width, dx), R(MinSize))
                           /\ RLe(RAdd(r.x, RAdd(r.width, dx)), R(cw))

\* an accepted edge resize step with a ratio locked, on a rectangle that lay
\* within the canvas
LockedEdgeStep ==
    /\ DragStepDone
    /\ prev.dragType \in Edges
    /\ ~IsNull(prev.aspectRatio)
    /\ WithinBounds(prev.cropRect[1], BmWidth(canvas), BmHeight(canvas))
    /\ EdgeStepAccepted(prev.dragType, prev.cropRect[1], StepDeltaX, StepDeltaY,
                        BmWidth(canvas), BmHeight(canvas))

\* C28: with a ratio r locked, an accepted ResizeN / ResizeS step with new
\* height h' leaves height h', width h' * r and the centre's x where it was; an
\* accepted ResizeE / ResizeW step with new width w' leaves width w', height
\* w' / r and the centre's y where it was.
C28_LockedEdgeKeepsCentre ==
    LockedEdgeStep
    => LET old == prev.cropRect[1]
           ratio == prev.aspectRatio[1]
           h1 == ProposedHeight(prev.dragType, old, StepDeltaY)
           w1 == ProposedWidth(prev.dragType, old, StepDeltaX)
       IN  IF prev.dragType \in {"resize-n", "resize-s"}
           THEN /\ cropRect[1].height = h1
                /\ cropRect[1].width = RMul(h1, ratio)
                /\ CenterX(cropRect[1]) = CenterX(old)
           ELSE /\ cropRect[1].width = w1
                /\ cropRect[1].height = RDiv(w1, ratio)
                /\ CenterY(cropRect[1]) = CenterY(old)

\* the step is the completion of an overlay redraw in an active crop session
\* over a loaded image with no load under way
OverlayRedrawInSession ==
    /\ OverlayRedrawCompletes
    /\ isCropping /\ ~IsNull(originalImageData)
    /\ \A t \in pending : t.kind # "load"

\* the rectangle whose outline the redraw has stroked
StrokedRect == canvas'[Len(canvas')].rect

\* C29: the overlay redraw of a crop session shows, everywhere but on the
\* outline, the working image: the pipeline's output for the original buffer
\* (which holds any earlier committed crop) and the current brightness,
\* contrast and filter.
C29_OverlayShowsWorkingImage ==
    [][OverlayRedrawInSession
       => \A i \in 0..(BmWidth(canvas') - 1) : \A j \in 0..(BmHeight(canvas') - 1) :
             \/ StrokeTouches(StrokedRect, i, j)
             \/ PixelAt(canvas', i, j) =
                   IF i < BmWidth(originalImageData) /\ j < BmHeight(originalImageData)
                   THEN processedPixel(PixelAt(originalImageData, i, j), brightness,
                                       contrast, activeFilter)
                   ELSE Transparent]_vars

\* C30: whenever no crop session is active the aspect-ratio lock is null, so
\* that every session startCrop starts is in free mode, also after an image
\* load that interrupted a session with a locked ratio.
C30_NoLockOutsideSession ==
    ~isCropping => aspectRatio = Null

\* the canvas shows the rotated working image: rotateImage has just turned the
\* pipeline's output for the original buffer and the current adjustments
RotatedWorkingImage ==
    /\ lastOp = "rotateImage"
    /\ ~IsNull(originalImageData)
    /\ canvas = rotateCanvas(applyImageAdjustments(originalImageData, brightness, contrast,
                                                   activeFilter, originalImageData))

\* C31: an adjustment event that follows a rotation and changes a value, and a
\* reset that follows it, leave on the canvas the pipeline's output for the
\* rotated image: the canvas keeps the rotated size and its pixel (i, j) is
\* the adjusted pixel (i, j) of the rotated original buffer.
C31_AdjustmentsKeepRotation ==
    [][(/\ RotatedWorkingImage
        /\ AdjustmentStep
        /\ \/ <<brightness, contrast, activeFilter>>' # <<brightness, contrast, activeFilter>>
           \/ lastOp' = "resetAdjustments")
       => LET rotated == rotateCanvas(originalImageData)
          IN  /\ BmWidth(canvas') = BmWidth(rotated)
              /\ BmHeight(canvas') = BmHeight(rotated)
              /\ \A i \in 0..(BmWidth(rotated) - 1) : \A j \in 0..(BmHeight(rotated) - 1) :
                    PixelAt(canvas', i, j) =
                        processedPixel(PixelAt(rotated, i, j), brightness', contrast',
                                       activeFilter')]_vars

\* the pixels of the original buffer
BufferPixels ==
    {<<i, j>> : i \in 0..(BmWidth(originalImageData) - 1),
                j \in 0..(BmHeight(originalImageData) - 1)}
OriginalPixel(q) == PixelAt(originalImageData, q[1], q[2])
WorkingPixel(q) == PixelAt(canvas, q[1], q[2])

\* C32: the working buffer is filter(brightnessContrast(original)): step 1 is
\* skipped when brightness = 0 and contrast = 0, step 2 when no filter is
\* active, and with all defaults it equals the original byte for byte.
C32_BrightnessContrastThenFilter ==
    /\ BmWidth(canvas) = BmWidth(originalImageData)
    /\ BmHeight(canvas) = BmHeight(originalImageData)
    /\ \A q \in BufferPixels :
          LET step1 == IF brightness = 0 /\ contrast = 0
                       THEN OriginalPixel(q)
                       ELSE applyBrightnessContrast(OriginalPixel(q), brightness, contrast)
              step2 == IF activeFilter = NoFilter THEN step1
                       ELSE applyFilter(step1, activeFilter)
          IN  /\ WorkingPixel(q) = step2
              /\ (brightness = 0 /\ contrast = 0 /\ activeFilter = NoFilter)
                 => WorkingPixel(q) = OriginalPixel(q)

\* a filter was selected with brightness and contrast set: both steps ran, in
\* that order, and the other order would have given another pixel
C32_Witness ==
    /\ lastOp = "handleFilterChange"
    /\ brightness # 0 /\ contrast # 0 /\ activeFilter = "sepia"
    /\ \E q \in BufferPixels :
          /\ WorkingPixel(q) = applyFilter(applyBrightnessContrast(OriginalPixel(q), brightness,
                                                                   contrast), "sepia")
          /\ WorkingPixel(q) # applyBrightnessContrast(applyFilter(OriginalPixel(q), "sepia"),
                                                       brightness, contrast)

\* C33: for every brightness, contrast and filter, each pixel of the working
\* buffer has the alpha of that pixel of the original buffer.
C33_AlphaUntouched ==
    \A q \in BufferPixels : WorkingPixel(q)[4] = OriginalPixel(q)[4]

\* brightness, contrast and a filter are set over a buffer with an opaque and a
\* transparent pixel, whose colours changed and whose alphas did not
C33_Witness ==
    /\ lastOp = "handleBrightnessChange"
    /\ brightness # 0 /\ contrast # 0 /\ activeFilter # NoFilter
    /\ \E q \in BufferPixels :
          OriginalPixel(q)[4] = 255 /\ WorkingPixel(q)[4] = 255
          /\ WorkingPixel(q) # OriginalPixel(q)
    /\ \E q \in BufferPixels :
          OriginalPixel(q)[4] = 0 /\ WorkingPixel(q)[4] = 0
          /\ WorkingPixel(q) # OriginalPixel(q)

\* the 8-bit value nearest to q (0 <= q <= 255), the even one of two equally near
Nearest8Bit(q) ==
    CHOOSE n \in 0..255 :
        LET twice == RMul(R(2), RSub(q, R(n)))
            dist == IF RLt(twice, R(0)) THEN RSub(R(0), twice) ELSE twice
        IN  RLt(dist, R(1)) \/ (dist = R(1) /\ n % 2 = 0)

\* clamp(F * ((v + b) - 128) + 128, 0, 255), F = 259 * (c + 255) / (255 * (259 - c))
ClaimedChannel(v, b, c) ==
    LET F == RDiv(R(259 * (c + 255)), R(255 * (259 - c)))
        value == RAdd(RMul(F, R((v + b) - 128)), R(128))
    IN  Nearest8Bit(RMax(R(0), RMin(R(255), value)))

\* C36: with brightness b and contrast c not both 0 (and no filter after them),
\* every R, G and B value v of the original becomes clamp(F * ((v + b) - 128) +
\* 128, 0, 255) as an 8-bit value; with c = 0 that is clamp(v + b, 0, 255).
C36_BrightnessContrastFormula ==
    ((brightness # 0 \/ contrast # 0) /\ activeFilter = NoFilter)
    => \A q \in BufferPixels : \A k \in 1..3 :
          /\ WorkingPixel(q)[k] = ClaimedChannel(OriginalPixel(q)[k], brightness, contrast)
          /\ contrast = 0
             => WorkingPixel(q)[k] =
                   (IF OriginalPixel(q)[k] + brightness < 0 THEN 0
                    ELSE IF OriginalPixel(q)[k] + brightness > 255 THEN 255
                    ELSE OriginalPixel(q)[k] + brightness)

\* brightness 50 was set with contrast -40 over a pixel with channels 176 and 1,
\* which the formula takes to 200 and 72
C36_Witness ==
    /\ lastOp = "handleBrightnessChange"
    /\ brightness = 50 /\ contrast = -40 /\ activeFilter = NoFilter
    /\ \E q \in BufferPixels :
          /\ OriginalPixel(q)[2] = 176 /\ WorkingPixel(q)[2] = 200
          /\ OriginalPixel(q)[3] = 1 /\ WorkingPixel(q)[3] = 72

\* min(255, v) and max(0, v)
AtMost255(v) == IF RLt(R(255), v) THEN R(255) ELSE v
AtLeast0(v) == IF RLt(v, R(0)) THEN R(0) ELSE v

\* n / d of v, and a weighted sum with weights in thousandths
Times(v, n, d) == RMul(R(v), RDiv(R(n), R(d)))
Weighted(p, wr, wg, wb) ==
    RAdd(RAdd(Times(p[1], wr, 1000), Times(p[2], wg, 1000)), Times(p[3], wb, 1000))

\* saturated to [0, 255] and rounded to 8 bits
Stored8Bit(v) == Nearest8Bit(AtLeast0(AtMost255(v)))

\* the formulas of the five named filters, alpha untouched
ClaimedFilter(p, f) ==
    CASE f = "grayscale" ->
           LET luminance == Stored8Bit(Weighted(p, 299, 587, 114))
           IN  <<luminance, luminance, luminance, p[4]>>
      [] f = "sepia" ->
           <<Stored8Bit(AtMost255(Weighted(p, 393, 769, 189))),
             Stored8Bit(AtMost255(Weighted(p, 349, 686, 168))),
             Stored8Bit(AtMost255(Weighted(p, 272, 534, 131))), p[4]>>
      [] f = "vintage" ->
           <<Stored8Bit(AtMost255(RAdd(Times(p[1], 12, 10), R(20)))),
             Stored8Bit(AtMost255(RAdd(Times(p[2], 11, 10), R(10)))),
             Stored8Bit(AtLeast0(RSub(Times(p[3], 8, 10), R(10)))), p[4]>>
      [] f = "cool" ->
           <<Stored8Bit(AtLeast0(Times(p[1], 8, 10))),
             Stored8Bit(AtMost255(Times(p[2], 11, 10))),
             Stored8Bit(AtMost255(Times(p[3], 13, 10))), p[4]>>
      [] f = "warm" ->
           <<Stored8Bit(AtMost255(Times(p[1], 12, 10))),
             Stored8Bit(AtMost255(Times(p[2], 11, 10))),
             Stored8Bit(AtLeast0(Times(p[3], 7, 10))), p[4]>>

\* C37: with a named filter active (and brightness and contrast 0), every pixel
\* of the working buffer is the filter's formula of the original pixel,
\* saturated to [0, 255] and rounded to 8 bits; Grayscale takes (200, 100, 50)
\* to 124 on all three channels.
C37_FilterFormulas ==
    /\ applyFilter(<<200, 100, 50, 255>>, "grayscale") = <<124, 124, 124, 255>>
    /\ (brightness = 0 /\ contrast = 0 /\ activeFilter \in SupportedFilters)
       => \A q \in BufferPixels :
             WorkingPixel(q) = ClaimedFilter(OriginalPixel(q), activeFilter)

\* Vintage was selected over a pixel with blue 1, which max(0, 0.8 B - 10) takes to 0
C37_Witness ==
    /\ lastOp = "handleFilterChange"
    /\ brightness = 0 /\ contrast = 0 /\ activeFilter = "vintage"
    /\ \E q \in BufferPixels :
          /\ OriginalPixel(q) = <<131, 176, 1, 255>>
          /\ WorkingPixel(q) = <<177, 204, 0, 255>>

\* how many times applyImageAdjustments has drawn into a bitmap
RECURSIVE PipelineRuns(_)
PipelineRuns(bm) ==
    IF bm = <<>> THEN 0
    ELSE PipelineRuns(SubSeq(bm, 1, Len(bm) - 1))
         + (IF bm[Len(bm)].op = "adj" THEN 1 ELSE 0)

\* C34: a pointer-move, dragging or not, never runs the adjustment pipeline, nor
\* does the overlay redraw it starts; each brightness, contrast or filter event
\* that changes a value runs it exactly once, on the original buffer, and the
\* canvas holds its output.
C34_PipelineOffTheDragPath ==
    [][/\ (nEvents' = nEvents + 1 /\ lastOp' = "handleMouseMove")
          => /\ canvas' = canvas
             /\ UNCHANGED <<brightness, contrast, activeFilter, originalImageData>>
       /\ lastOp' = "drawCropOverlayOnload"
          => PipelineRuns(canvas') <= PipelineRuns(canvas)
       /\ (/\ AdjustmentStep
           /\ lastOp' # "resetAdjustments"
           /\ <<brightness, contrast, activeFilter>>' # <<brightness, contrast, activeFilter>>
           /\ ~IsNull(originalImageData))
          => /\ canvas' = applyImageAdjustments(originalImageData, brightness', contrast',
                                                activeFilter', canvas)
             /\ PipelineRuns(canvas') = PipelineRuns(originalImageData) + 1]_vars

\* brightness went from 0 to 50 during a crop session: the canvas holds one run
\* of the pipeline over the original buffer
C34_Witness ==
    /\ lastOp = "handleBrightnessChange"
    /\ isCropping /\ ~IsNull(cropRect)
    /\ prev.brightness = 0 /\ brightness = 50
    /\ ~IsNull(originalImageData)
    /\ canvas = applyImageAdjustments(originalImageData, brightness, contrast, activeFilter,
                                      canvas)
    /\ PipelineRuns(canvas) = PipelineRuns(originalImageData) + 1

\* the nine handles
Handles == Corners \cup Edges \cup {"move"}

\* the points with whole coordinates on and around a rectangle, out to the far
\* side of its hit squares
PointsAround(r) ==
    {<<R(px), R(py)>> :
        px \in (RTrunc(r.x) - handleSize - 1)..(RTrunc(RAdd(r.x, r.width)) + handleSize + 1),
        py \in (RTrunc(r.y) - handleSize - 1)..(RTrunc(RAdd(r.y, r.height)) + handleSize + 1)}

\* C35: for every crop rectangle of width >= 20 and height >= 20, each of the
\* nine handles is what getDragType returns for at least one point; some point
\* starts a Move, also when the rectangle is narrower or shorter than 30.
C35_EveryHandleSelectable ==
    (/\ isCropping /\ ~IsNull(cropRect)
     /\ RGe(cropRect[1].width, R(MinSize)) /\ RGe(cropRect[1].height, R(MinSize)))
    => \A t \in Handles :
          \E p \in PointsAround(cropRect[1]) : getDragType(cropRect, p[1], p[2]) = t

\* ((pointerX - left) * bufferWidth / displayWidth,
\*  (pointerY - top) * bufferHeight / displayHeight)
ClaimedBufferPoint(pointerX, pointerY, display, bufferWidth, bufferHeight) ==
    <<RDiv(RMul(RSub(pointerX, display.left), R(bufferWidth)), display.width),
      RDiv(RMul(RSub(pointerY, display.top), R(bufferHeight)), display.height)>>

\* client coordinates on, beside and beyond the displayed canvas
ClientSamples == {<<R(cx), R(cy)>> : cx \in {0, 16, 17, 49, 81, 200}, cy \in {0, 24, 35, 60}}

\* C38: getMousePos returns ((pointerX - left) * bufferWidth / displayWidth,
\* (pointerY - top) * bufferHeight / displayHeight) for the canvas' display
\* rectangle, and it changes no state: a pointer-down is hit-tested at that
\* point, and one that hits no handle leaves every state variable as it was.
C38_MapToBuffer ==
    [][LET bw == BmWidth(canvas)
           bh == BmHeight(canvas)
           display == BoundingClientRect(bw, bh)
       IN  /\ \A c \in ClientSamples :
                 getMousePos(c[1], c[2], bw, bh)
                     = ClaimedBufferPoint(c[1], c[2], display, bw, bh)
           /\ (nEvents' = nEvents + 1 /\ lastOp' = "handleMouseDown" /\ ~IsNull(pressed'))
              => /\ \E q \in HitGrid :
                       pressed'[1] = ClaimedBufferPoint(ClientPointOver(q, bw, bh)[1],
                                                        ClientPointOver(q, bw, bh)[2],
                                                        display, bw, bh)
                 /\ UNCHANGED <<uploadedImage, isCropping, cropRect, aspectRatio, brightness,
                                contrast, activeFilter, originalImageData, canvas, pending>>
                 /\ getDragType(cropRect, pressed'[1][1], pressed'[1][2]) = "none"
                    => UNCHANGED <<isDragging, dragStart, dragType>>]_vars

\* the pointer went down over client point (38.5, 34) of a 130x72 canvas shown
\* at 65x36 from (16, 24): the press is at buffer point (45, 20)
C38_Witness ==
    /\ PressDone
    /\ BmWidth(canvas) = 130 /\ BmHeight(canvas) = 72
    /\ ClientPointOver(pressed[1], 130, 72) = <<<<77, 2>>, R(34)>>
    /\ pressed[1] = <<R(45), R(20)>>
    /\ pressed[1] = ClaimedBufferPoint(<<77, 2>>, R(34), BoundingClientRect(130, 72), 130, 72)

=============================================================================
